---- MODULE Spec2Model ----
(***************************************************************************)
(* State machine of the d-di single-screen application (src/index.tsx):    *)
(* the App component's seven state cells, the browser's localStorage, the  *)
(* requests in flight to the generative-AI service, and the rendering of   *)
(* the component tree.                                                     *)
(*                                                                         *)
(* JS strings typed by the user (agent name, drug list) are sequences of   *)
(* one-character strings so that String.prototype.trim is computed.        *)
(***************************************************************************)
EXTENDS Naturals, Sequences, FiniteSets

VARIABLES
    storage,     \* localStorage: a function whose domain is the set of present keys
    onboarded,   \* useState cell, line 42
    agentName,   \* useState cell, line 43
    inputName,   \* useState cell, line 44
    drugs,       \* useState cell, line 45
    loading,     \* useState cell, line 46
    results,     \* useState cell, line 47 (a JSON value, JSNull when null)
    error,       \* useState cell, line 48 (NoError when null)
    response,    \* the local `response` of the latest checkInteractions call, line 67
    mounted,     \* FALSE once a render of App has thrown and React removed the tree
    requests,    \* generateContent calls awaited by the current page, oldest first
    orphaned     \* generateContent calls whose page was torn down by a reload

vars == <<storage, onboarded, agentName, inputName, drugs, loading, results,
          error, response, mounted, requests, orphaned>>

\* What one page holds: the seven useState cells of App, the local of its
\* latest checkInteractions call, and the mount status.
session == <<onboarded, agentName, inputName, drugs, loading, results, error,
             response, mounted>>

----------------------------------------------------------------------------
(* Bounds *)

MaxLen == 2            \* longest text typed into either input
MaxInteractions == 2   \* longest interactions array the service returns
MaxOrphaned == 1       \* requests of torn-down pages still in flight

----------------------------------------------------------------------------
(* JS strings and String.prototype.trim *)

Whitespace == {" "}
Letters == {"a"}
Chars == Whitespace \cup Letters

Texts == UNION {[1..n -> Chars] : n \in 0..MaxLen}

EmptyString == <<>>

RECURSIVE TrimStart(_)
TrimStart(s) ==
    IF s = <<>> THEN s
    ELSE IF Head(s) \in Whitespace THEN TrimStart(Tail(s)) ELSE s

RECURSIVE TrimEnd(_)
TrimEnd(s) ==
    IF s = <<>> THEN s
    ELSE IF s[Len(s)] \in Whitespace THEN TrimEnd(SubSeq(s, 1, Len(s) - 1)) ELSE s

Trim(s) == TrimEnd(TrimStart(s))

\* ToBoolean of a JS string: the empty string is the only falsy one.
TruthyString(s) == s # EmptyString

----------------------------------------------------------------------------
(* localStorage *)

KeyOnboarded == "d-di-onboarded"
KeyAgentName == "d-di-agent-name"

EmptyStorage == [k \in {} |-> "true"]

setItem(s, k, v) == [x \in (DOMAIN s) \cup {k} |-> IF x = k THEN v ELSE s[x]]

clear(s) == EmptyStorage

\* useState initialiser of line 42: getItem(...) === 'true'
InitOnboarded(s) == KeyOnboarded \in DOMAIN s /\ s[KeyOnboarded] = "true"

\* useState initialiser of line 43: getItem(...) || ''
InitAgentName(s) ==
    IF KeyAgentName \in DOMAIN s /\ TruthyString(s[KeyAgentName])
    THEN s[KeyAgentName] ELSE EmptyString

----------------------------------------------------------------------------
(* JSON values, the response text and JSON.parse *)

KnownSeverities == {"Minor", "Moderate", "Major", "Contraindicated"}

\* Severity strings the service puts in a record (the schema types severity as
\* a plain string): two of the four of the schema's description, one that is
\* none of them, and one that names a property every JS object inherits.
Severities == {"Minor", "Major", "Severe", "constructor"}

Interaction(sev) ==
    [severity |-> sev, drugs |-> <<"Warfarin", "Aspirin">>, mechanism |-> "...",
     clinicalEffect |-> "...", recommendation |-> "..."]

InteractionRecords == {Interaction(sev) : sev \in Severities}

InteractionLists == UNION {[1..n -> InteractionRecords] : n \in 0..MaxInteractions}

Summaries == {"", "No significant interactions found."}

\* A JSON value: null, or an object with any subset of the two top-level keys.
\* An absent key carries a placeholder that is never read.
JSNull == [type |-> "null", keys |-> {}, interactions |-> <<>>, summary |-> ""]

JSObject(keys, interactions, summary) ==
    [type |-> "object", keys |-> keys,
     interactions |-> IF "interactions" \in keys THEN interactions ELSE <<>>,
     summary |-> IF "summary" \in keys THEN summary ELSE ""]

JSONValues ==
    {JSNull} \cup
    {JSObject(keys, i, s) : keys \in SUBSET {"interactions", "summary"},
                            i \in InteractionLists, s \in Summaries}

\* response.text: undefined, the empty string, text that is not JSON, or the
\* serialisation of a JSON value.
ResponseText(kind, value) == [kind |-> kind, value |-> value]

\* The local `response` before the await of line 67 has completed.
NoResponse == ResponseText("none", JSNull)

ResponseTexts ==
    {ResponseText(k, JSNull) : k \in {"undefined", "empty", "malformed"}} \cup
    {ResponseText("json", v) : v \in JSONValues}

\* response.text || "{}" (line 101): undefined and "" are falsy.
TextOrDefault(text) ==
    IF text.kind \in {"undefined", "empty"}
    THEN ResponseText("json", JSObject({}, <<>>, ""))
    ELSE text

\* JSON.parse (line 101): throws SyntaxError on text that is not JSON.
JSONParse(text) ==
    IF text.kind = "json"
    THEN [threw |-> FALSE, value |-> text.value]
    ELSE [threw |-> TRUE, value |-> JSNull]

\* ToBoolean of a parsed value: null is falsy, every object is truthy.
Truthy(v) == v.type # "null"

----------------------------------------------------------------------------
(* Messages *)

NoError == "null"
GenericError == "Failed to fetch interactions. Please ensure you enter valid drug names."

----------------------------------------------------------------------------
(* Rendering (lines 28-38 and 111-278) *)

colors ==
    [sev \in KnownSeverities |->
        CASE sev = "Minor" -> "text-blue-500"
          [] sev = "Moderate" -> "text-yellow-500"
          [] sev = "Major" -> "text-orange-500"
          [] sev = "Contraindicated" -> "text-red-600"]

\* Names every object literal inherits from Object.prototype; reading one of
\* them from `colors` yields a function or an object, never undefined.
ObjectPrototypeProperties ==
    {"constructor", "toString", "toLocaleString", "valueOf", "hasOwnProperty",
     "isPrototypeOf", "propertyIsEnumerable", "__proto__"}

Undefined == "undefined"
Inherited == "[inherited Object.prototype member]"

\* colors[severity]: an own property, else an inherited one, else undefined.
ColorsGet(severity) ==
    IF severity \in DOMAIN colors THEN colors[severity]
    ELSE IF severity \in ObjectPrototypeProperties THEN Inherited
    ELSE Undefined

\* className of AlertIcon (line 36): colors[severity] || 'text-gray-500'.
AlertIcon(severity) ==
    LET c == ColorsGet(severity) IN IF c # Undefined THEN c ELSE "text-gray-500"

\* results.interactions.map(...) of lines 210-243: one card per record.
Cards(res) ==
    [idx \in 1..Len(res.interactions) |->
        [key |-> idx - 1,
         drugs |-> res.interactions[idx].drugs,
         severity |-> res.interactions[idx].severity,
         className |-> AlertIcon(res.interactions[idx].severity),
         mechanism |-> res.interactions[idx].mechanism,
         clinicalEffect |-> res.interactions[idx].clinicalEffect,
         recommendation |-> res.interactions[idx].recommendation]]

\* The {results && ...} block of lines 197-252, for a result that has an
\* interactions array.
ResultsBlock(res) ==
    [badge |-> Len(res.interactions),
     summaryShown |-> "summary" \in res.keys /\ res.summary # "",
     cards |-> Cards(res),
     emptyState |-> Len(res.interactions) = 0]

\* Rendering Main reads results.interactions.length (line 201) whenever results
\* is truthy: a TypeError when the object has no interactions property.
RenderThrows(onb, res) == onb /\ Truthy(res) /\ "interactions" \notin res.keys

\* disabled attribute of the Get Started button (line 135).
StartDisabled == ~TruthyString(Trim(inputName))

\* Mutant of AnalyzeDisabled: the button forgets the loading flag.
AnalyzeDisabled_IgnoresLoading == ~TruthyString(Trim(drugs))

\* disabled attribute of the Analyze button (line 177).
AnalyzeDisabled == loading \/ ~TruthyString(Trim(drugs))

\* Which tree is on screen: nothing once a render has thrown, else the branch
\* of line 111.
Screen == IF ~mounted THEN "Blank" ELSE IF ~onboarded THEN "Onboarding" ELSE "Main"

\* {error && ...} of lines 191-195.
ErrorBanner == IF error # NoError /\ error # "" THEN error ELSE NoError

----------------------------------------------------------------------------
(* Page load *)

\* The state a freshly loaded page has for storage s (lines 42-48, 281-285).
\* Requests awaited by the page being replaced lose their continuation.
LoadPage(s) ==
    /\ storage' = s
    /\ onboarded' = InitOnboarded(s)
    /\ agentName' = InitAgentName(s)
    /\ inputName' = EmptyString
    /\ drugs' = EmptyString
    /\ loading' = FALSE
    /\ results' = JSNull
    /\ error' = NoError
    /\ response' = NoResponse
    /\ mounted' = TRUE
    /\ requests' = <<>>
    /\ orphaned' = orphaned + Len(requests)

Init ==
    /\ storage = EmptyStorage
    /\ onboarded = InitOnboarded(EmptyStorage)
    /\ agentName = InitAgentName(EmptyStorage)
    /\ inputName = EmptyString
    /\ drugs = EmptyString
    /\ loading = FALSE
    /\ results = JSNull
    /\ error = NoError
    /\ response = NoResponse
    /\ mounted = TRUE
    /\ requests = <<>>
    /\ orphaned = 0

\* The user reloads the page in the browser.
Reload ==
    /\ orphaned + Len(requests) <= MaxOrphaned
    /\ LoadPage(storage)

\* Mutant of Reset: the page reloads but localStorage is left as it is.
Reset_NoClear ==
    /\ Screen = "Main"
    /\ orphaned + Len(requests) <= MaxOrphaned
    /\ LoadPage(storage)

\* onClick of the Settings button (line 270): localStorage.clear(); reload().
Reset ==
    /\ Screen = "Main"
    /\ orphaned + Len(requests) <= MaxOrphaned
    /\ LoadPage(clear(storage))

\* A request of a torn-down page settles: no continuation is left to run.
OrphanSettle ==
    /\ orphaned > 0
    /\ orphaned' = orphaned - 1
    /\ UNCHANGED <<storage, session, requests>>

----------------------------------------------------------------------------
(* Onboarding screen *)

\* onChange of the name input (line 130).
SetInputName(value) ==
    /\ Screen = "Onboarding"
    /\ inputName' = value
    /\ UNCHANGED <<storage, onboarded, agentName, drugs, loading, results, error,
                   response, mounted, requests, orphaned>>

\* Mutant of handleStart: the onboarded flag is never persisted.
handleStart_NoFlag ==
    IF TruthyString(Trim(inputName))
    THEN /\ storage' = setItem(storage, KeyAgentName, Trim(inputName))
         /\ agentName' = Trim(inputName)
         /\ onboarded' = TRUE
         /\ UNCHANGED <<inputName, drugs, loading, results, error, response,
                        mounted, requests, orphaned>>
    ELSE UNCHANGED vars

\* Mutant of handleStart: the in-memory agent name is set without trimming.
handleStart_Untrimmed ==
    IF TruthyString(Trim(inputName))
    THEN /\ storage' = setItem(setItem(storage, KeyAgentName, Trim(inputName)),
                               KeyOnboarded, "true")
         /\ agentName' = inputName
         /\ onboarded' = TRUE
         /\ UNCHANGED <<inputName, drugs, loading, results, error, response,
                        mounted, requests, orphaned>>
    ELSE UNCHANGED vars

\* handleStart (lines 50-57).
handleStart ==
    IF TruthyString(Trim(inputName))
    THEN /\ storage' = setItem(setItem(storage, KeyAgentName, Trim(inputName)),
                               KeyOnboarded, "true")
         /\ agentName' = Trim(inputName)
         /\ onboarded' = TRUE
         /\ UNCHANGED <<inputName, drugs, loading, results, error, response,
                        mounted, requests, orphaned>>
    ELSE UNCHANGED vars

\* The user clicks Get Started (lines 133-139); a disabled button dispatches
\* nothing.
ClickStart ==
    /\ Screen = "Onboarding"
    /\ IF StartDisabled THEN UNCHANGED vars ELSE handleStart

----------------------------------------------------------------------------
(* Main screen *)

\* onChange of the drug textarea (line 172).
SetDrugs(value) ==
    /\ Screen = "Main"
    /\ drugs' = value
    /\ UNCHANGED <<storage, onboarded, agentName, inputName, loading, results,
                   error, response, mounted, requests, orphaned>>

\* Mutant of checkInteractions: setResults(null) is missing.
checkInteractions_KeepResults ==
    IF ~TruthyString(Trim(drugs))
    THEN UNCHANGED vars
    ELSE /\ loading' = TRUE
         /\ error' = NoError
         /\ response' = NoResponse
         /\ requests' = Append(requests, [drugs |-> drugs, agentName |-> agentName])
         /\ UNCHANGED <<storage, onboarded, agentName, inputName, drugs, results,
                        mounted, orphaned>>

\* Mutant of checkInteractions: setError(null) is missing.
checkInteractions_KeepError ==
    IF ~TruthyString(Trim(drugs))
    THEN UNCHANGED vars
    ELSE /\ loading' = TRUE
         /\ results' = JSNull
         /\ response' = NoResponse
         /\ requests' = Append(requests, [drugs |-> drugs, agentName |-> agentName])
         /\ UNCHANGED <<storage, onboarded, agentName, inputName, drugs, error,
                        mounted, orphaned>>

\* checkInteractions up to its await (lines 59-99): the early return, the three
\* state writes, and the one generateContent call.
checkInteractions ==
    IF ~TruthyString(Trim(drugs))
    THEN UNCHANGED vars
    ELSE /\ loading' = TRUE
         /\ error' = NoError
         /\ results' = JSNull
         /\ response' = NoResponse
         /\ requests' = Append(requests, [drugs |-> drugs, agentName |-> agentName])
         /\ UNCHANGED <<storage, onboarded, agentName, inputName, drugs, mounted,
                        orphaned>>

\* The user clicks Analyze Interactions (lines 175-178); a disabled button
\* dispatches nothing.
ClickAnalyze ==
    /\ Screen = "Main"
    /\ IF AnalyzeDisabled THEN UNCHANGED vars ELSE checkInteractions

\* Mutant of ServiceResolve: the finally block is missing.
ServiceResolve_NoFinally(text) ==
    /\ mounted
    /\ requests # <<>>
    /\ response' = text
    /\ LET parsed == JSONParse(TextOrDefault(text)) IN
        IF parsed.threw
        THEN error' = GenericError /\ results' = results
        ELSE results' = parsed.value /\ error' = error
    /\ requests' = Tail(requests)
    /\ mounted' = ~RenderThrows(onboarded, results')
    /\ UNCHANGED <<storage, onboarded, agentName, inputName, drugs, loading, orphaned>>

\* The awaited call resolves with response.text = text (lines 101-108): parse,
\* setResults or the catch block, then finally; the writes are rendered as one
\* update, and a render that throws removes the tree.
ServiceResolve(text) ==
    /\ mounted
    /\ requests # <<>>
    /\ response' = text
    /\ LET parsed == JSONParse(TextOrDefault(text)) IN
        IF parsed.threw
        THEN error' = GenericError /\ results' = results
        ELSE results' = parsed.value /\ error' = error
    /\ loading' = FALSE
    /\ requests' = Tail(requests)
    /\ mounted' = ~RenderThrows(onboarded, results')
    /\ UNCHANGED <<storage, onboarded, agentName, inputName, drugs, orphaned>>

\* The awaited call rejects (lines 103-108): the catch block, then finally.
ServiceReject ==
    /\ mounted
    /\ requests # <<>>
    /\ error' = GenericError
    /\ loading' = FALSE
    /\ requests' = Tail(requests)
    /\ mounted' = ~RenderThrows(onboarded, results)
    /\ UNCHANGED <<storage, onboarded, agentName, inputName, drugs, results,
                   response, orphaned>>

----------------------------------------------------------------------------

Next ==
    \/ Reload
    \/ Reset
    \/ OrphanSettle
    \/ \E value \in Texts : SetInputName(value)
    \/ ClickStart
    \/ \E value \in Texts : SetDrugs(value)
    \/ ClickAnalyze
    \/ \E text \in ResponseTexts : ServiceResolve(text)
    \/ ServiceReject

Spec == Init /\ [][Next]_vars

TypeOK ==
    /\ onboarded \in BOOLEAN /\ loading \in BOOLEAN /\ mounted \in BOOLEAN
    /\ agentName \in Texts /\ inputName \in Texts /\ drugs \in Texts
    /\ results \in JSONValues
    /\ error \in {NoError, GenericError}
    /\ response \in ResponseTexts \cup {NoResponse}
    /\ \A i \in 1..Len(requests) :
          requests[i] \in [drugs : Texts, agentName : Texts]
    /\ orphaned \in 0..MaxOrphaned
    /\ DOMAIN storage \subseteq {KeyOnboarded, KeyAgentName}

----------------------------------------------------------------------------
(* Request lifecycle *)

Idle == ~loading /\ results = JSNull /\ error = NoError
Loading == loading /\ results = JSNull /\ error = NoError
Success == ~loading /\ results # JSNull /\ error = NoError
Failed == ~loading /\ results = JSNull /\ error # NoError

\* A response whose text parses into the Analysis Result shape.
MatchesShape(text) ==
    /\ text.kind = "json"
    /\ text.value.type = "object"
    /\ {"interactions", "summary"} \subseteq text.value.keys

\* The tier a severity is meant to get: its own class for the four known
\* values, the neutral class for everything else.
TierOf(severity) ==
    IF severity \in KnownSeverities THEN colors[severity] ELSE "text-gray-500"

----------------------------------------------------------------------------
(* Claims *)

\* C1: in every reachable state the loading flag, a non-null result and a
\* non-null error are pairwise exclusive, so the lifecycle is exactly one of
\* Idle, Loading, Success, Failed.
C1_LifecycleExclusive ==
    /\ ~(loading /\ results # JSNull)
    /\ ~(loading /\ error # NoError)
    /\ ~(results # JSNull /\ error # NoError)
    /\ Cardinality({k \in 1..4 : <<Idle, Loading, Success, Failed>>[k]}) = 1

\* A query that failed on unparseable text, after a submit from the Main screen.
C1_Witness == Failed /\ response.kind = "malformed" /\ Screen = "Main"

\* C2: a request is sent only from a state with non-empty trimmed drug text
\* that is not Loading, one request per accepted submission, so never more
\* than one is outstanding; a click with blank text changes nothing.
C2_SingleFlight ==
    [][/\ Len(requests') > Len(requests) =>
            /\ TruthyString(Trim(drugs))
            /\ ~loading
            /\ Len(requests) = 0
            /\ Len(requests') = 1
       /\ (ClickAnalyze /\ ~TruthyString(Trim(drugs))) => UNCHANGED vars]_vars

\* One request outstanding while the user has already blanked the input.
C2_Witness == Len(requests) = 1 /\ loading /\ ~TruthyString(Trim(drugs))

\* C3: when the awaited call rejects, the state becomes Failed with the generic
\* message, no result is held, loading is false and the drug text is untouched.
C3_RejectEndsFailed ==
    [][ServiceReject =>
            /\ error' = GenericError
            /\ results' = JSNull
            /\ ~loading'
            /\ drugs' = drugs
            /\ Screen' = "Main"]_vars

\* Failed through a rejection (no response was ever received), input kept.
C3_Witness ==
    Failed /\ response = NoResponse /\ error = GenericError /\ TruthyString(Trim(drugs))

\* C4: once a response has been received, text that does not parse into the
\* Analysis Result shape has ended in Failed with the generic message, a held
\* result has interactions and summary, and the state is not Idle.
C4_MalformedEndsFailed ==
    response # NoResponse =>
        /\ ~MatchesShape(response) => (Failed /\ error = GenericError)
        /\ results # JSNull => {"interactions", "summary"} \subseteq results.keys
        /\ ~Idle

\* C5: a submission clears result and error before the request is sent, and the
\* state after a parsed response is a function of that response alone.
C5_SuccessDependsOnResponseOnly ==
    /\ requests # <<>> => Loading
    /\ (response # NoResponse /\ ~JSONParse(TextOrDefault(response)).threw) =>
            <<loading, results, error>> =
                <<FALSE, JSONParse(TextOrDefault(response)).value, NoError>>

\* A Success holding two records, reached on the Main screen.
C5_Witness ==
    /\ Success /\ Screen = "Main"
    /\ MatchesShape(response)
    /\ Len(results.interactions) = 2

\* C6: a click on Get Started with a name that is non-empty after trimming
\* persists the trimmed name and the flag and shows Main; with a blank name it
\* changes nothing; and while the flag is persisted every load shows Main (only
\* reset removes the flag).
C6_SubmitAgentName ==
    [][/\ ClickStart =>
            IF TruthyString(Trim(inputName))
            THEN /\ KeyAgentName \in DOMAIN storage'
                 /\ storage'[KeyAgentName] = Trim(inputName)
                 /\ InitOnboarded(storage')
                 /\ onboarded'
                 /\ agentName' = Trim(inputName)
                 /\ Screen' = "Main"
            ELSE UNCHANGED vars
       /\ (Reload /\ InitOnboarded(storage)) => Screen' = "Main"
       /\ (InitOnboarded(storage) /\ ~InitOnboarded(storage')) => Reset]_vars

\* Onboarded from a name typed with surrounding whitespace.
C6_Witness ==
    /\ onboarded /\ InitOnboarded(storage)
    /\ inputName # Trim(inputName)
    /\ storage[KeyAgentName] = Trim(inputName)

\* C7: reset clears every persisted key and restarts the session in its initial
\* state, and a request in flight at that moment changes nothing when it
\* settles.
C7_ResetRestarts ==
    [][/\ Reset =>
            /\ storage' = EmptyStorage
            /\ ~onboarded' /\ agentName' = EmptyString
            /\ inputName' = EmptyString /\ drugs' = EmptyString
            /\ results' = JSNull /\ error' = NoError /\ ~loading'
            /\ requests' = <<>>
            /\ Screen' = "Onboarding"
       /\ orphaned' < orphaned => UNCHANGED <<storage, session>>]_vars

\* A fresh session after a reset taken while a request was in flight.
C7_Witness ==
    /\ storage = EmptyStorage /\ Screen = "Onboarding"
    /\ orphaned > 0 /\ TruthyString(inputName)

\* C8: no request is left Loading once it has settled, and after a completed
\* request the Main screen is still there and enables submission whenever the
\* trimmed input is non-empty.
C8_NoFatalState ==
    /\ requests = <<>> => ~loading
    /\ (~loading /\ (response # NoResponse \/ error # NoError)) =>
            /\ Screen = "Main"
            /\ TruthyString(Trim(drugs)) => ~AnalyzeDisabled

\* C9: whenever a result with an interactions array is held, there is one card
\* per record in the returned order, the badge is the array's length, an empty
\* array shows the empty state and no error, and each card's tier is the class
\* of its severity: four distinct classes for the known values, the neutral
\* class for every other string.
C9_RenderingFaithful ==
    /\ \A a, b \in KnownSeverities :
            /\ a # b => colors[a] # colors[b]
            /\ colors[a] # "text-gray-500"
    /\ (Screen = "Main" /\ Truthy(results) /\ "interactions" \in results.keys) =>
        LET block == ResultsBlock(results) IN
            /\ Len(block.cards) = Len(results.interactions)
            /\ block.badge = Len(results.interactions)
            /\ Len(results.interactions) = 0 =>
                    (block.emptyState /\ ErrorBanner = NoError)
            /\ \A i \in 1..Len(results.interactions) :
                    /\ block.cards[i].severity = results.interactions[i].severity
                    /\ block.cards[i].drugs = results.interactions[i].drugs
                    /\ block.cards[i].className =
                            TierOf(results.interactions[i].severity)

\* C10: the session agrees with storage: onboarded exactly when the flag is
\* persisted, and then the agent name is the persisted one, non-empty and
\* trimmed; Main is never shown and no request is ever sent with an empty name.
C10_SessionAgreesWithStorage ==
    /\ onboarded <=> InitOnboarded(storage)
    /\ onboarded =>
            /\ KeyAgentName \in DOMAIN storage
            /\ agentName = storage[KeyAgentName]
            /\ TruthyString(agentName)
            /\ Trim(agentName) = agentName
    /\ Screen = "Main" => TruthyString(agentName)
    /\ \A i \in 1..Len(requests) :
            /\ TruthyString(requests[i].agentName)
            /\ requests[i].agentName = agentName

\* A request in flight from a session onboarded with a padded name.
C10_Witness ==
    /\ onboarded /\ requests # <<>>
    /\ inputName # agentName
    /\ Len(agentName) = 1

====
